---- MODULE Spec2Model ----
(***************************************************************************)
(* Model of the protocol dispatch layer of pyo3 (src/objectprotocol.rs)    *)
(* and of the string conversion adapters (src/objects/stringutils.rs).     *)
(*                                                                         *)
(* The foreign runtime is modelled by its observable state: the reference  *)
(* count of each object, the ambient error indicator, and the log of the   *)
(* foreign entry points a handler invoked.  Each handler is an operator on *)
(* a context record (the runtime state threaded through the handler's      *)
(* statements, in the order of the source); each action applies one whole  *)
(* handler to the current state.                                           *)
(***************************************************************************)
EXTENDS Integers, Sequences, FiniteSets, TLC

VARIABLES refcnt, owned, err, crashed, lastOp, env, result, prevTag, log,
          fetches, clones, releases, text, otype, content, origin, convs

vars == <<refcnt, owned, err, crashed, lastOp, env, result, prevTag, log,
          fetches, clones, releases, text, otype, content, origin, convs>>

(***************************************************************************)
(* Bounds                                                                  *)
(***************************************************************************)
MaxRef == 4
MaxOps == 3
MaxLen == 2

(***************************************************************************)
(* Foreign objects, errors, results                                        *)
(***************************************************************************)
Objs == {"obj", "attr", "res", "tuple", "val"}

NULL == "NULL"
NoErr == "NoErr"

Ok(v) == [tag |-> "Ok", val |-> v]
Err(e) == [tag |-> "Err", val |-> e]

\* references the foreign runtime itself holds on each object
ext == [o \in Objs |-> IF o \in {"obj", "attr"} THEN 1 ELSE 0]

\* answers of the foreign runtime to one handler invocation
NoEnv == [eq |-> 0, lt |-> 0, gt |-> 0, v |-> 0, raise |-> FALSE,
          attr |-> FALSE, call |-> FALSE, ub |-> "none"]

Ctx(rc, own, e) == [rc |-> rc, own |-> own, err |-> e, log |-> <<>>,
                    fetches |-> 0, crashed |-> FALSE]

Py_INCREF(c, o) == [c EXCEPT !.rc[o] = @ + 1]
Py_DECREF(c, o) == [c EXCEPT !.rc[o] = @ - 1]
Logged(c, fn, arg) == [c EXCEPT !.log = Append(@, <<fn, arg>>)]
Raise(c, e) == [c EXCEPT !.err = e]

\* PyErr::fetch: take the ambient error and clear the indicator
PyErr_fetch(c) ==
    [val |-> IF c.err = NoErr THEN "SystemError" ELSE c.err,
     ctx |-> [c EXCEPT !.err = NoErr, !.fetches = @ + 1]]

\* PyErr::new::<TypeError>: an error built by the host, indicator untouched
PyErr_new(c, kind) == [val |-> kind, ctx |-> c]

Done(c, r) == [res |-> r, ctx |-> c]
Failed(f) == [res |-> Err(f.val), ctx |-> f.ctx]

(***************************************************************************)
(* compare                                                                 *)
(***************************************************************************)
CmpErr == [Py_EQ |-> "E_eq", Py_LT |-> "E_lt", Py_GT |-> "E_gt"]

PyObject_RichCompareBool(c, op, answer) ==
    LET c1 == Logged(c, "PyObject_RichCompareBool", op)
    IN  [ret |-> answer, ctx |-> IF answer < 0 THEN Raise(c1, CmpErr[op]) ELSE c1]

do_compare_swapped(c, e) ==
    LET r1 == PyObject_RichCompareBool(c, "Py_EQ", e.eq) IN
    IF r1.ret = 1 THEN Done(r1.ctx, Ok("Equal"))
    ELSE IF r1.ret < 0 THEN Failed(PyErr_fetch(r1.ctx))
    ELSE
    LET r2 == PyObject_RichCompareBool(r1.ctx, "Py_GT", e.gt) IN
    IF r2.ret = 1 THEN Done(r2.ctx, Ok("Greater"))
    ELSE IF r2.ret < 0 THEN Failed(PyErr_fetch(r2.ctx))
    ELSE
    LET r3 == PyObject_RichCompareBool(r2.ctx, "Py_LT", e.lt) IN
    IF r3.ret = 1 THEN Done(r3.ctx, Ok("Less"))
    ELSE IF r3.ret < 0 THEN Failed(PyErr_fetch(r3.ctx))
    ELSE Failed(PyErr_new(r3.ctx, "TypeError"))

do_compare_default(c, e) ==
    LET r1 == PyObject_RichCompareBool(c, "Py_EQ", e.eq) IN
    IF r1.ret = 1 THEN Done(r1.ctx, Ok("Equal"))
    ELSE IF r1.ret < 0 THEN Failed(PyErr_fetch(r1.ctx))
    ELSE
    LET r2 == PyObject_RichCompareBool(r1.ctx, "Py_LT", e.lt) IN
    IF r2.ret = 1 THEN Done(r2.ctx, Ok("Less"))
    ELSE IF r2.ret < 0 THEN Failed(PyErr_fetch(r2.ctx))
    ELSE
    LET r3 == PyObject_RichCompareBool(r2.ctx, "Py_GT", e.gt) IN
    IF r3.ret < 0 THEN Failed(PyErr_fetch(r3.ctx))
    ELSE Done(r3.ctx, Ok("Greater"))

do_compare_noshort(c, e) ==
    LET r1 == PyObject_RichCompareBool(c, "Py_EQ", e.eq) IN
    IF r1.ret = 1 THEN Done(r1.ctx, Ok("Equal"))
    ELSE
    LET r2 == PyObject_RichCompareBool(r1.ctx, "Py_LT", e.lt) IN
    IF r2.ret = 1 THEN Done(r2.ctx, Ok("Less"))
    ELSE IF r2.ret < 0 THEN Failed(PyErr_fetch(r2.ctx))
    ELSE
    LET r3 == PyObject_RichCompareBool(r2.ctx, "Py_GT", e.gt) IN
    IF r3.ret = 1 THEN Done(r3.ctx, Ok("Greater"))
    ELSE IF r3.ret < 0 THEN Failed(PyErr_fetch(r3.ctx))
    ELSE Failed(PyErr_new(r3.ctx, "TypeError"))

do_compare(c, e) ==
    LET r1 == PyObject_RichCompareBool(c, "Py_EQ", e.eq) IN
    IF r1.ret = 1 THEN Done(r1.ctx, Ok("Equal"))
    ELSE IF r1.ret < 0 THEN Failed(PyErr_fetch(r1.ctx))
    ELSE
    LET r2 == PyObject_RichCompareBool(r1.ctx, "Py_LT", e.lt) IN
    IF r2.ret = 1 THEN Done(r2.ctx, Ok("Less"))
    ELSE IF r2.ret < 0 THEN Failed(PyErr_fetch(r2.ctx))
    ELSE
    LET r3 == PyObject_RichCompareBool(r2.ctx, "Py_GT", e.gt) IN
    IF r3.ret = 1 THEN Done(r3.ctx, Ok("Greater"))
    ELSE IF r3.ret < 0 THEN Failed(PyErr_fetch(r3.ctx))
    ELSE Failed(PyErr_new(r3.ctx, "TypeError"))

(***************************************************************************)
(* hash, is_true, len                                                      *)
(***************************************************************************)
\* a foreign slot call that answers e.v and raises when e.raise
SlotCall(c, fn, e, kind) ==
    LET c1 == Logged(c, fn, "obj")
    IN  [ret |-> e.v, ctx |-> IF e.raise THEN Raise(c1, kind) ELSE c1]

hash_checked(c, e) ==
    LET r == SlotCall(c, "PyObject_Hash", e, "E_hash") IN
    IF r.ret = -1 /\ r.ctx.err # NoErr THEN Failed(PyErr_fetch(r.ctx))
    ELSE Done(r.ctx, Ok(r.ret))

hash_nofetch(c, e) ==
    LET r == SlotCall(c, "PyObject_Hash", e, "E_hash") IN
    IF r.ret = -1 THEN Failed(PyErr_new(r.ctx, "E_hash"))
    ELSE Done(r.ctx, Ok(r.ret))

hash(c, e) ==
    LET r == SlotCall(c, "PyObject_Hash", e, "E_hash") IN
    IF r.ret = -1 THEN Failed(PyErr_fetch(r.ctx))
    ELSE Done(r.ctx, Ok(r.ret))

is_true(c, e) ==
    LET r == SlotCall(c, "PyObject_IsTrue", e, "E_bool") IN
    IF r.ret = -1 THEN Failed(PyErr_fetch(r.ctx))
    ELSE Done(r.ctx, Ok(r.ret # 0))

len(c, e) ==
    LET r == SlotCall(c, "PyObject_Size", e, "E_len") IN
    IF r.ret = -1 THEN Failed(PyErr_fetch(r.ctx))
    ELSE Done(r.ctx, Ok(r.ret))

(***************************************************************************)
(* call, call_method                                                       *)
(***************************************************************************)
\* args.into_tuple: a fresh argument tuple owned by the handler
into_tuple(c) == [Py_INCREF(c, "tuple") EXCEPT !.own["tuple"] = @ + 1]

\* Python::release / drop of an Owned wrapper
release(c, o) == [Py_DECREF(c, o) EXCEPT !.own[o] = @ - 1]

\* PyObject::clone_ref: a new Owned wrapper on the same handle
PyObject_clone_ref(c, o) == [Py_INCREF(c, o) EXCEPT !.own[o] = @ + 1]

\* returns a new reference to the attribute, or NULL with the error set
PyObject_GetAttr(c, e) ==
    LET c1 == Logged(c, "PyObject_GetAttr", "obj") IN
    IF e.attr THEN [ret |-> "attr", ctx |-> Py_INCREF(c1, "attr")]
    ELSE [ret |-> NULL, ctx |-> Raise(c1, "E_attr")]

\* returns a new reference to the result, or NULL with the error set.
\* A NULL callable is dereferenced by the runtime: the process dies, or the
\* read happens to miss and the call comes back NULL with the error as it was.
PyObject_Call(c, callee, e) ==
    LET c1 == Logged(c, "PyObject_Call", callee) IN
    IF callee = NULL
    THEN [ret |-> NULL, ctx |-> [c1 EXCEPT !.crashed = (e.ub = "crash")]]
    ELSE IF e.call THEN [ret |-> "res", ctx |-> Py_INCREF(c1, "res")]
    ELSE [ret |-> NULL, ctx |-> Raise(c1, "E_call")]

\* Python::cast_from_borrowed_ptr_or_err: NULL is the fetched error, any
\* other pointer is promoted to an owning claim by incrementing its count
cast_from_borrowed_ptr_or_err(c, ptr) ==
    IF ptr = NULL THEN Failed(PyErr_fetch(c))
    ELSE Done(PyObject_clone_ref(c, ptr), Ok(ptr))

Crashed(c) == [res |-> [tag |-> "Crash", val |-> "-"], ctx |-> c]

call(c, e) ==
    LET c1 == into_tuple(c)
        r  == PyObject_Call(c1, "obj", e)
        result0 == cast_from_borrowed_ptr_or_err(r.ctx, r.ret)
    IN  Done(release(result0.ctx, "tuple"), result0.res)

call_method(c, e) ==
    LET c1 == into_tuple(c)
        a  == PyObject_GetAttr(c1, e)
        r  == PyObject_Call(a.ctx, a.ret, e)
    IN  IF r.ctx.crashed THEN Crashed(r.ctx)
        ELSE LET result0 == cast_from_borrowed_ptr_or_err(r.ctx, r.ret)
             IN  Done(release(result0.ctx, "tuple"), result0.res)

(***************************************************************************)
(* clone_ref, get_refcnt                                                   *)
(***************************************************************************)
clone_ref_from_owned(c, o) == release([c EXCEPT !.own[o] = @ + 1], o)

\* ptr is taken by value: it is cloned, then dropped when clone_ref returns
clone_ref(c, o) == release(PyObject_clone_ref(c, o), o)

get_refcnt(o) == refcnt[o]

(***************************************************************************)
(* Host text and the foreign string object                                 *)
(*                                                                         *)
(* A host text is a sequence of Unicode scalar values held as UTF-8 bytes; *)
(* a foreign string holds code points (lone surrogates included).          *)
(***************************************************************************)
CodePoints == {0, 65, 127, 128, 2047, 2048, 65535, 65536, 1114111}
Surrogates == 55296..57343

Texts == UNION {[1..n -> CodePoints] : n \in 0..MaxLen}

Utf8Encode1(cp) ==
    IF cp < 128 THEN <<cp>>
    ELSE IF cp < 2048 THEN <<192 + (cp \div 64), 128 + (cp % 64)>>
    ELSE IF cp < 65536
    THEN <<224 + (cp \div 4096), 128 + ((cp \div 64) % 64), 128 + (cp % 64)>>
    ELSE <<240 + (cp \div 262144), 128 + ((cp \div 4096) % 64),
           128 + ((cp \div 64) % 64), 128 + (cp % 64)>>

RECURSIVE Utf8Encode(_)
Utf8Encode(cps) ==
    IF cps = <<>> THEN <<>> ELSE Utf8Encode1(Head(cps)) \o Utf8Encode(Tail(cps))

Utf8Width(b0) ==
    IF b0 < 128 THEN 1
    ELSE IF b0 >= 194 /\ b0 < 224 THEN 2
    ELSE IF b0 >= 224 /\ b0 < 240 THEN 3
    ELSE IF b0 >= 240 /\ b0 < 245 THEN 4
    ELSE 0

Utf8Bad == [ok |-> FALSE, cps |-> <<>>]

RECURSIVE Utf8Decode(_)
Utf8Decode(b) ==
    IF b = <<>> THEN [ok |-> TRUE, cps |-> <<>>]
    ELSE
    LET n == Utf8Width(b[1]) IN
    IF n = 0 \/ Len(b) < n THEN Utf8Bad
    ELSE IF \E i \in 2..n : b[i] \notin 128..191 THEN Utf8Bad
    ELSE
    LET cp == CASE n = 1 -> b[1]
                [] n = 2 -> (b[1] - 192) * 64 + (b[2] - 128)
                [] n = 3 -> (b[1] - 224) * 4096 + (b[2] - 128) * 64 + (b[3] - 128)
                [] n = 4 -> (b[1] - 240) * 262144 + (b[2] - 128) * 4096
                            + (b[3] - 128) * 64 + (b[4] - 128)
        rest == Utf8Decode(SubSeq(b, n + 1, Len(b)))
    IN  IF (n = 3 /\ (cp < 2048 \/ cp \in Surrogates))
           \/ (n = 4 /\ (cp < 65536 \/ cp > 1114111))
           \/ ~rest.ok
        THEN Utf8Bad
        ELSE [ok |-> TRUE, cps |-> <<cp>> \o rest.cps]

\* PyString::new: the runtime decodes the host's UTF-8 bytes into a string
PyString_new(t) == Utf8Decode(Utf8Encode(t)).cps

\* PyString::to_string: the runtime's UTF-8 form of the string, validated
\* and read back by the host
to_string(cps) ==
    IF \E i \in 1..Len(cps) : cps[i] \in Surrogates
    THEN Err("UnicodeEncodeError")
    ELSE LET d == Utf8Decode(Utf8Encode(cps))
         IN  IF d.ok THEN Ok(d.cps) ELSE Err("UnicodeDecodeError")

\* PyString::downcast_from: the runtime type check behind cast_as
downcast_from(ty) == IF ty = "str" THEN Ok(ty) ELSE Err("DowncastError")

cast_as_incref(c, ty) ==
    [res |-> downcast_from(ty), ctx |-> Py_INCREF(c, "val")]

cast_as(c, ty) == [res |-> downcast_from(ty), ctx |-> c]

\* the value built by to_object / into_object for str, String and Cow<str>
to_object_lossy(t) == PyString_new(IF t = <<>> THEN t ELSE SubSeq(t, 1, Len(t) - 1))

to_object(t) == PyString_new(t)

\* extraction outcome: the result, the context, the conversions attempted
extract_Cow(c, ty, cps) ==
    LET s == cast_as(c, ty) IN
    IF s.res.tag = "Err" THEN [res |-> s.res, ctx |-> s.ctx, convs |-> 0]
    ELSE [res |-> to_string(cps), ctx |-> s.ctx, convs |-> 1]

extract_String(c, ty, cps) ==
    LET s == cast_as(c, ty) IN
    IF s.res.tag = "Err" THEN [res |-> s.res, ctx |-> s.ctx, convs |-> 0]
    ELSE [res |-> to_string(cps), ctx |-> s.ctx, convs |-> 1]

(***************************************************************************)
(* State machine                                                           *)
(***************************************************************************)
CmpAnswers == {-1, 0, 1}
HashVals == {-1, -2, 0, 7}
TruthVals == {-1, 0, 1}
SizeVals == {-1, 0, 2}
ForeignContents == {<<233>>, <<55296>>, <<65, 57343>>}

countVars == <<clones, releases>>
strVars == <<text, otype, content, origin, convs>>

Now == Ctx(refcnt, owned, err)

InitCommon ==
    /\ refcnt = [o \in Objs |-> IF o = "obj" THEN ext[o] + 1 ELSE ext[o]]
    /\ owned = [o \in Objs |-> IF o = "obj" THEN 1 ELSE 0]
    /\ err = NoErr
    /\ crashed = FALSE
    /\ lastOp = "init"
    /\ env = NoEnv
    /\ result = Ok("-")
    /\ prevTag = "none"
    /\ log = <<>>
    /\ fetches = 0
    /\ clones = 0
    /\ releases = 0
    /\ otype = "none"
    /\ content = <<>>
    /\ origin = "none"
    /\ convs = 0

Init == InitCommon /\ text = <<>>

InitStr == InitCommon /\ text \in Texts

\* the state after one handler has run to its return (or to the crash)
Apply(op, e, out) ==
    /\ refcnt' = out.ctx.rc
    /\ owned' = out.ctx.own
    /\ err' = out.ctx.err
    /\ crashed' = out.ctx.crashed
    /\ lastOp' = op
    /\ env' = e
    /\ result' = out.res
    /\ prevTag' = result.tag
    /\ log' = out.ctx.log
    /\ fetches' = out.ctx.fetches

Compare ==
    /\ ~crashed
    /\ \E eq \in CmpAnswers, lt \in CmpAnswers, gt \in CmpAnswers :
         LET e == [NoEnv EXCEPT !.eq = eq, !.lt = lt, !.gt = gt]
         IN  Apply("compare", e, do_compare(Now, e))
    /\ UNCHANGED <<countVars, strVars>>

Hash ==
    /\ ~crashed
    /\ \E v \in HashVals, raise \in BOOLEAN :
         /\ raise => v = -1
         /\ LET e == [NoEnv EXCEPT !.v = v, !.raise = raise]
            IN  Apply("hash", e, hash(Now, e))
    /\ UNCHANGED <<countVars, strVars>>

IsTrue ==
    /\ ~crashed
    /\ \E v \in TruthVals, raise \in BOOLEAN :
         /\ raise => v = -1
         /\ LET e == [NoEnv EXCEPT !.v = v, !.raise = raise]
            IN  Apply("is_true", e, is_true(Now, e))
    /\ UNCHANGED <<countVars, strVars>>

Length ==
    /\ ~crashed
    /\ \E v \in SizeVals, raise \in BOOLEAN :
         /\ raise => v = -1
         /\ LET e == [NoEnv EXCEPT !.v = v, !.raise = raise]
            IN  Apply("len", e, len(Now, e))
    /\ UNCHANGED <<countVars, strVars>>

Call ==
    /\ ~crashed
    /\ refcnt["res"] + 2 <= MaxRef
    /\ \E ok \in BOOLEAN :
         LET e == [NoEnv EXCEPT !.call = ok]
         IN  Apply("call", e, call(Now, e))
    /\ UNCHANGED <<countVars, strVars>>

CallMethod ==
    /\ ~crashed
    /\ refcnt["res"] + 2 <= MaxRef
    /\ refcnt["attr"] + 1 <= MaxRef
    /\ \E has \in BOOLEAN, ok \in BOOLEAN, ub \in {"crash", "null"} :
         LET e == [NoEnv EXCEPT !.attr = has, !.call = ok, !.ub = ub]
         IN  Apply("call_method", e, call_method(Now, e))
    /\ UNCHANGED <<countVars, strVars>>

\* ObjectProtocol::clone_ref(ptr) on a wrapper of obj
CloneRef ==
    /\ ~crashed
    /\ owned["obj"] > 0
    /\ refcnt["obj"] < MaxRef
    /\ clones < MaxOps
    /\ Apply("clone_ref", NoEnv, [res |-> Ok("obj"), ctx |-> clone_ref(Now, "obj")])
    /\ clones' = clones + 1
    /\ releases' = releases + 1
    /\ UNCHANGED strVars

\* PyObject::clone_ref on a wrapper of obj
PyObjectCloneRef ==
    /\ ~crashed
    /\ owned["obj"] > 0
    /\ refcnt["obj"] < MaxRef
    /\ clones < MaxOps
    /\ Apply("PyObject::clone_ref", NoEnv,
             [res |-> Ok("obj"), ctx |-> PyObject_clone_ref(Now, "obj")])
    /\ clones' = clones + 1
    /\ UNCHANGED <<releases, strVars>>

\* an Owned wrapper of o goes out of scope
Release(o) ==
    /\ ~crashed
    /\ owned[o] > 0
    /\ Apply("release", NoEnv, [res |-> Ok(o), ctx |-> release(Now, o)])
    /\ releases' = IF o = "obj" THEN releases + 1 ELSE releases
    /\ IF o = "val" /\ refcnt[o] = 1
       THEN otype' = "none" /\ content' = <<>> /\ origin' = "none"
       ELSE UNCHANGED <<otype, content, origin>>
    /\ UNCHANGED <<clones, text, convs>>

\* to_object / into_object of the host text, for str, String and Cow<str>
ToObject ==
    /\ ~crashed
    /\ refcnt["val"] = 0
    /\ Apply("to_object", NoEnv,
             [res |-> Ok("val"), ctx |-> PyObject_clone_ref(Now, "val")])
    /\ otype' = "str"
    /\ content' = to_object(text)
    /\ origin' = "host"
    /\ UNCHANGED <<countVars, text, convs>>

\* the runtime hands the host an object it made itself
ForeignVal ==
    /\ ~crashed
    /\ refcnt["val"] = 0
    /\ Apply("foreign", NoEnv,
             [res |-> Ok("val"), ctx |-> PyObject_clone_ref(Now, "val")])
    /\ \E ty \in {"int", "str"}, cps \in ForeignContents :
         /\ otype' = ty
         /\ content' = IF ty = "str" THEN cps ELSE <<>>
    /\ origin' = "foreign"
    /\ UNCHANGED <<countVars, text, convs>>

Extracted(op, out) ==
    /\ Apply(op, NoEnv, [res |-> out.res, ctx |-> out.ctx])
    /\ convs' = out.convs
    /\ UNCHANGED <<countVars, text, otype, content, origin>>

ExtractString ==
    /\ ~crashed
    /\ refcnt["val"] > 0
    /\ Extracted("extract_String", extract_String(Now, otype, content))

ExtractCow ==
    /\ ~crashed
    /\ refcnt["val"] > 0
    /\ Extracted("extract_Cow", extract_Cow(Now, otype, content))

Next ==
    \/ Compare
    \/ Hash
    \/ IsTrue
    \/ Length
    \/ Call
    \/ CallMethod
    \/ CloneRef
    \/ PyObjectCloneRef
    \/ \E o \in Objs : Release(o)

Spec == Init /\ [][Next]_vars

NextStr ==
    \/ ToObject
    \/ ForeignVal
    \/ ExtractString
    \/ ExtractCow
    \/ \E o \in Objs : Release(o)

SpecStr == InitStr /\ [][NextStr]_vars

(***************************************************************************)
(* Properties                                                              *)
(***************************************************************************)
Test(op) == <<"PyObject_RichCompareBool", op>>
AllTests == <<Test("Py_EQ"), Test("Py_LT"), Test("Py_GT")>>
IsPrefix(s, t) == Len(s) <= Len(t) /\ s = SubSeq(t, 1, Len(s))
Extracts == {"extract_String", "extract_Cow"}

\* C1: compare issues its tests in the order Eq, Lt, Gt and returns at the
\* first test that answers true: Equal, else Less, else Greater; no test is
\* issued after one has answered true.
CompareOrder ==
    lastOp = "compare" =>
        /\ Len(log) >= 1 /\ IsPrefix(log, AllTests)
        /\ env.eq = 1 => result = Ok("Equal") /\ log = SubSeq(AllTests, 1, 1)
        /\ env.eq = 0 /\ env.lt = 1 =>
               result = Ok("Less") /\ log = SubSeq(AllTests, 1, 2)
        /\ env.eq = 0 /\ env.lt = 0 /\ env.gt = 1 =>
               result = Ok("Greater") /\ log = AllTests

CompareOrderWitness ==
    /\ lastOp = "compare"
    /\ env.eq = 0 /\ env.lt = 1 /\ env.gt = 1
    /\ result = Ok("Less")

\* C2: when the three tests of compare all complete and answer false, compare
\* returns the TypeError it builds itself, never a Success, and fetches
\* nothing from the ambient error indicator.
CompareIncomparable ==
    lastOp = "compare" /\ env.eq = 0 /\ env.lt = 0 /\ env.gt = 0 =>
        /\ result = Err("TypeError")
        /\ log = AllTests
        /\ fetches = 0

CompareIncomparableWitness ==
    /\ lastOp = "compare"
    /\ env.eq = 0 /\ env.lt = 0 /\ env.gt = 0
    /\ result.tag = "Err"

\* C3: a failing test of compare ends compare with that failure: no later
\* test is issued, the ambient error is fetched exactly once, and the result
\* is neither the TypeError of compare nor a Success.
CompareShortCircuit ==
    lastOp = "compare" =>
        /\ env.eq = -1 =>
               result = Err("E_eq") /\ log = SubSeq(AllTests, 1, 1) /\ fetches = 1
        /\ env.eq = 0 /\ env.lt = -1 =>
               result = Err("E_lt") /\ log = SubSeq(AllTests, 1, 2) /\ fetches = 1
        /\ env.eq = 0 /\ env.lt = 0 /\ env.gt = -1 =>
               result = Err("E_gt") /\ log = AllTests /\ fetches = 1

CompareShortCircuitWitness ==
    /\ lastOp = "compare"
    /\ env.eq = -1 /\ env.lt = 1
    /\ result = Err("E_eq")
    /\ Len(log) = 1

\* C4 (as stated): hash returns Success(-1) when the hash call answers the
\* sentinel and the indicator is unset, and Failure only when the sentinel
\* comes with the indicator set.
HashSentinelIsSuccess ==
    lastOp = "hash" =>
        /\ env.v = -1 /\ ~env.raise => result.tag = "Ok" /\ result.val = -1
        /\ result.tag = "Err" => env.v = -1 /\ env.raise

\* C4 (amended): hash returns Failure exactly when the hash call answers the
\* sentinel -1, whether or not the indicator is set, after one fetch of the
\* ambient error; any other answer v is returned as Success(v).
HashFailsOnSentinel ==
    lastOp = "hash" =>
        /\ result.tag = "Err" <=> env.v = -1
        /\ env.v = -1 => fetches = 1
        /\ env.v # -1 => result.val = env.v /\ fetches = 0

HashFailsOnSentinelWitness ==
    /\ lastOp = "hash"
    /\ env.v = -1 /\ ~env.raise
    /\ result.tag = "Err"
    /\ fetches = 1

\* C5: when the attribute does not resolve, call_method returns the
\* attribute-resolution error and never invokes the call entry point on the
\* unresolved (null) attribute.
CallMethodResolvesFirst ==
    lastOp = "call_method" /\ ~env.attr =>
        /\ result = Err("E_attr")
        /\ \A i \in 1..Len(log) : log[i] # <<"PyObject_Call", NULL>>

\* C6: when an operation returns, the ambient indicator is clear; a Failure
\* drawn from the indicator was fetched exactly once and is an error of this
\* operation, never one left by an earlier operation; an operation whose
\* foreign calls succeed returns Success.
OwnErrors ==
    [op \in {"compare", "hash", "is_true", "len", "call", "call_method"} |->
        CASE op = "compare" -> {"E_eq", "E_lt", "E_gt"}
          [] op = "hash" -> {"E_hash", "SystemError"}
          [] op = "is_true" -> {"E_bool", "SystemError"}
          [] op = "len" -> {"E_len", "SystemError"}
          [] op = "call" -> {"E_call"}
          [] op = "call_method" -> {"E_attr", "E_call"}]

ForeignCallsSucceeded ==
    \/ lastOp \in {"hash", "is_true", "len"} /\ env.v # -1
    \/ lastOp = "call" /\ env.call
    \/ lastOp = "call_method" /\ env.attr /\ env.call

ErrorSingleFetch ==
    ~crashed /\ lastOp \in DOMAIN OwnErrors =>
        /\ err = NoErr
        /\ fetches <= 1
        /\ result.tag = "Ok" => fetches = 0
        /\ result.tag = "Err" /\ result.val # "TypeError" =>
               fetches = 1 /\ result.val \in OwnErrors[lastOp]
        /\ result.tag = "Err" /\ result.val = "TypeError" => fetches = 0
        /\ ForeignCallsSucceeded => result.tag = "Ok"

ErrorSingleFetchWitness ==
    /\ prevTag = "Err"
    /\ lastOp = "hash"
    /\ env.v = 7
    /\ result.tag = "Ok"
    /\ err = NoErr

\* C7: the reference count of the wrapper's handle is its initial count plus
\* the clones made minus the wrappers released, and is never negative.
RefcountConservation ==
    /\ get_refcnt("obj") = (ext["obj"] + 1) + clones - releases
    /\ get_refcnt("obj") >= 0

RefcountConservationWitness ==
    /\ lastOp = "clone_ref"
    /\ clones >= 2
    /\ releases >= 2
    /\ owned["obj"] = 1

\* C8: when call or call_method returns, the count of every object equals its
\* live Owned wrappers plus the references the runtime holds.
CallCountInvariant ==
    lastOp \in {"call", "call_method"} /\ ~crashed =>
        \A o \in Objs : refcnt[o] = owned[o] + ext[o]

\* C9: a host text encoded to a foreign string and extracted again (as String
\* or as Cow<str>) is extracted successfully and equals the text.
RoundTrip ==
    lastOp \in Extracts /\ origin = "host" =>
        result.tag = "Ok" /\ result.val = text

RoundTripWitness ==
    /\ lastOp = "extract_String"
    /\ origin = "host"
    /\ Len(text) = 2 /\ text[1] = 1114111 /\ text[2] = 128
    /\ result.tag = "Ok"

\* C10: extracting a String or Cow<str> from a handle that is not a foreign
\* string fails with the downcast error before any string conversion, and
\* leaves the reference counts and the ambient indicator as they were.
DowncastFrame ==
    [][lastOp' \in Extracts /\ otype # "str" =>
           /\ result'.tag = "Err" /\ result'.val = "DowncastError"
           /\ convs' = 0
           /\ refcnt' = refcnt
           /\ owned' = owned
           /\ err' = err]_vars

DowncastFrameWitness ==
    /\ lastOp = "extract_Cow"
    /\ otype = "int"
    /\ result.tag = "Err"
    /\ convs = 0

====
